---- MODULE Spec2Model ----
(***************************************************************************)
(* The interactive path planner of js/path-planner.js (class PathPlanner): *)
(* the occupancy grid and its editing handlers, the A*, Dijkstra and RRT   *)
(* searches, and the run / pause / clear / reset controls.                 *)
(*                                                                         *)
(* JavaScript runs one task at a time.  A handler, or the part of an async *)
(* search between two awaits, runs to completion before anything else: it  *)
(* is one action here.  A search suspended in `await this.delay(..)' or in *)
(* `await this.waitForResume()' is an entry of `loops' whose pc says which *)
(* timer it waits for; the timer's expiry is an action of its own, so any  *)
(* handler can run between two parts of a search.                          *)
(*                                                                         *)
(* Costs.  Every g, f and dist the grid searches compute is a sum of 1s    *)
(* and sqrt(2)s, so a cost a + b*sqrt(2) is the pair <<a, b>> and is       *)
(* compared exactly (CLess).  The doubles of the source agree with this    *)
(* order except where two costs that are equal as reals differ in their    *)
(* last bit.                                                               *)
(***************************************************************************)
EXTENDS Integers, Sequences, FiniteSets, TLC

VARIABLES
    gridSize,          \* this.gridSize
    grid,              \* this.grid[y][x], here grid[<<x, y>>]: 0 empty, 1 obstacle
    start,             \* this.start, a cell <<x, y>>
    goal,              \* this.goal
    currentAlgorithm,  \* this.currentAlgorithm
    isRunning,         \* this.isRunning
    isPaused,          \* this.isPaused
    path,              \* this.path, a sequence of <<x, y>>
    visited,           \* this.visited, a set of keys "x,y", here <<x, y>>
    frontier,          \* this.frontier
    rrtTree,           \* this.rrtTree: the node list of the RRT run, or NoTree (null; unset
                       \* before the first clearPath(), which reads the same)
    plannerStatus,     \* the text of #plannerStatus
    nodesExplored,     \* the text of #nodesExplored, a number
    loops,             \* the invocations of runAStar / runDijkstra / runRRT that have not returned
    draws              \* number of handleDraw calls made so far (bounds the model)

vars == <<gridSize, grid, start, goal, currentAlgorithm, isRunning, isPaused, path,
          visited, frontier, rrtTree, plannerStatus, nodesExplored, loops, draws>>

----------------------------------------------------------------------------
(* Bounds of the model *)

\* side of the grid in the bounded specifications
SmallGrid == 3

\* most obstacle cells of a grid the search specifications start from
MaxObstacles == 4

\* most handleDraw calls in one behaviour
MaxDraws == 1

\* most search invocations that have not returned at one time
MaxLoops == 2

----------------------------------------------------------------------------
(* Small helpers *)

Abs(n) == IF n < 0 THEN 0 - n ELSE n

Max2(a, b) == IF a >= b THEN a ELSE b

Min2(a, b) == IF a <= b THEN a ELSE b

MinOf(S) == CHOOSE m \in S : \A n \in S : m <= n

Range(s) == {s[i] : i \in DOMAIN s}

Cells == (0 .. gridSize - 1) \X (0 .. gridSize - 1)

\* the key `${n.x},${n.y}` of a node
Key(n) == <<n.x, n.y>>

NoTree == <<>>

----------------------------------------------------------------------------
(* Costs a + b*sqrt(2) as pairs <<a, b>> *)

Zero == <<0, 0>>

CAdd(c, d) == <<c[1] + d[1], c[2] + d[2]>>

\* c < d, decided exactly: with da = c.a - d.a and db = c.b - d.b,
\* da + db*sqrt(2) < 0.
CLess(c, d) ==
    LET da == c[1] - d[1]
        db == c[2] - d[2]
    IN  IF da <= 0 /\ db <= 0 THEN da < 0 \/ db < 0
        ELSE IF da >= 0 /\ db >= 0 THEN FALSE
        ELSE IF da < 0 THEN 2 * db * db < da * da
        ELSE da * da < 2 * db * db

\* heuristic(a, b): max(dx,dy) + (SQRT2 - 1) * min(dx,dy), cells a, b
heuristic(a, b) ==
    LET dx == Abs(a[1] - b[1])
        dy == Abs(a[2] - b[2])
    IN  <<Max2(dx, dy) - Min2(dx, dy), Min2(dx, dy)>>

\* distance(a, b) = sqrt(dx*dx + dy*dy) between a cell and one of its 8 neighbours:
\* 1 for an orthogonal step, sqrt(2) for a diagonal one
distance(a, b) ==
    LET dx == a[1] - b[1]
        dy == a[2] - b[2]
        sq == dx * dx + dy * dy
    IN  IF sq = 0 THEN Zero ELSE IF sq = 1 THEN <<1, 0>> ELSE <<0, 1>>

----------------------------------------------------------------------------
(* getNeighbors *)

dirs == << <<-1, -1>>, <<0, -1>>, <<1, -1>>,
           <<-1, 0>>,             <<1, 0>>,
           <<-1, 1>>,  <<0, 1>>,  <<1, 1>> >>

\* a mutant of KeepsDir: the corner-cutting test left out
KeepsDirAnyDiagonal(c, d) ==
    LET nx == c[1] + d[1]
        ny == c[2] + d[2]
    IN  nx >= 0 /\ nx < gridSize /\ ny >= 0 /\ ny < gridSize

\* does getNeighbors keep direction d from cell c?
KeepsDir(c, d) ==
    LET nx == c[1] + d[1]
        ny == c[2] + d[2]
    IN  /\ nx >= 0 /\ nx < gridSize /\ ny >= 0 /\ ny < gridSize
        /\ ~ ( /\ d[1] # 0 /\ d[2] # 0
               /\ (grid[<<c[1] + d[1], c[2]>>] = 1 \/ grid[<<c[1], c[2] + d[2]>>] = 1) )

RECURSIVE NeighborsFrom(_, _)
NeighborsFrom(c, k) ==
    IF k > Len(dirs) THEN <<>>
    ELSE IF KeepsDir(c, dirs[k])
         THEN <<<<c[1] + dirs[k][1], c[2] + dirs[k][2]>>>> \o NeighborsFrom(c, k + 1)
         ELSE NeighborsFrom(c, k + 1)

\* getNeighbors(node): the neighbour cells in the order of dirs
getNeighbors(c) == NeighborsFrom(c, 1)

----------------------------------------------------------------------------
(* The open collection: openSet.sort(...) and openSet.shift() *)

\* the sort key of an open node: f in runAStar, dist in runDijkstra
Prio(n) == IF "f" \in DOMAIN n THEN n.f ELSE n.dist

\* e put after every element that is not greater than it
InsertStable(sorted, e) ==
    LET gt == {j \in 1 .. Len(sorted) : CLess(Prio(e), Prio(sorted[j]))}
        k  == IF gt = {} THEN Len(sorted) + 1 ELSE MinOf(gt)
    IN  SubSeq(sorted, 1, k - 1) \o <<e>> \o SubSeq(sorted, k, Len(sorted))

RECURSIVE Reverse(_)
Reverse(s) == IF s = <<>> THEN <<>> ELSE Append(Reverse(Tail(s)), Head(s))

RECURSIVE SortOpenDescending(_)
\* a mutant of SortOpen: the comparator reversed (b.f - a.f)
SortOpenDescending(s) ==
    IF s = <<>> THEN <<>>
    ELSE Reverse(InsertStable(Reverse(SortOpenDescending(SubSeq(s, 1, Len(s) - 1))), s[Len(s)]))

RECURSIVE SortOpen(_)
\* Array.prototype.sort with the comparator a.f - b.f (a.dist - b.dist): a stable sort
SortOpen(s) ==
    IF s = <<>> THEN <<>>
    ELSE InsertStable(SortOpen(SubSeq(s, 1, Len(s) - 1)), s[Len(s)])

\* openSet.find(n => n.x === c.x && n.y === c.y): its index, 0 if none
FindOpen(openSet, c) ==
    LET hit == {j \in 1 .. Len(openSet) : Key(openSet[j]) = c}
    IN  IF hit = {} THEN 0 ELSE MinOf(hit)

----------------------------------------------------------------------------
(* reconstructPath *)

RECURSIVE ChainTo(_, _)
\* the cells from the root down to the expanded node number idx of a run;
\* closed is the run's expanded nodes in order, and a parent is the number of
\* an expanded node, 0 for null
ChainTo(closed, idx) ==
    IF idx = 0 THEN <<>>
    ELSE Append(ChainTo(closed, closed[idx].parent), Key(closed[idx]))

\* a mutant of reconstructPath: push in place of unshift, the path from the end
\* node back to the root
reconstructPathReversed(closed, endNode) ==
    Reverse(Append(ChainTo(closed, endNode.parent), Key(endNode)))

\* reconstructPath(endNode): unshift each node walking the parent links
reconstructPath(closed, endNode) ==
    Append(ChainTo(closed, endNode.parent), Key(endNode))

----------------------------------------------------------------------------
(* What a part of a search reads and writes.  A machine m is the invocation's *)
(* own state m.l (its local variables and where it is suspended) with the     *)
(* fields of the planner that a search writes, and isPaused, which it reads.  *)
(* grid, start, goal and gridSize are only read and are read from the state.  *)

Machine(l) ==
    [l |-> l, isRunning |-> isRunning, isPaused |-> isPaused, path |-> path,
     visited |-> visited, frontier |-> frontier, rrtTree |-> rrtTree, plannerStatus |-> plannerStatus,
     nodesExplored |-> nodesExplored]

\* f with f[k] set to v, k added to its domain if new (obj[key] = v)
Put(f, k, v) == [c \in DOMAIN f \cup {k} |-> IF c = k THEN v ELSE f[c]]

\* reconstructPath(current); 'Path Found!'; this.isRunning = false; return
Found(m, current) ==
    [m EXCEPT !.path = reconstructPath(m.l.closed, current),
              !.plannerStatus = "Path Found!",
              !.isRunning = FALSE,
              !.l.pc = "done"]

\* a mutant of LoopExit: `this.isRunning = false' left out
LoopExitKeepsRunning(m) ==
    IF m.isRunning
    THEN [m EXCEPT !.plannerStatus = "No Path Found", !.l.pc = "done"]
    ELSE [m EXCEPT !.l.pc = "done"]

\* after the while loop: if (this.isRunning) { 'No Path Found'; this.isRunning = false }
LoopExit(m) ==
    IF m.isRunning
    THEN [m EXCEPT !.plannerStatus = "No Path Found", !.isRunning = FALSE, !.l.pc = "done"]
    ELSE [m EXCEPT !.l.pc = "done"]

----------------------------------------------------------------------------
(* runAStar *)

\* const openSet = [{...start, g: 0, f: heuristic(start, goal), parent: null}]; ...
\* seen is the grid, the start and the goal as they are at this first read of them;
\* pushes counts the nodes put into openSet so far, and the seq of a node is the
\* number of nodes put there before it
aStarInit ==
    [alg |-> "astar", pc |-> "new",
     openSet |-> << [x |-> start[1], y |-> start[2], g |-> Zero,
                     f |-> heuristic(start, goal), parent |-> 0, seq |-> 0] >>,
     pushes |-> 1,
     closedSet |-> {},
     gScores |-> (start :> Zero),
     closed |-> <<>>,
     seen |-> <<grid, start, goal>>]

\* one pass of the loop body up to `await this.delay(..)': sort, shift, the goal
\* test, closedSet.add, visited.add, the frontier
aStarPop(m) ==
    LET sorted  == SortOpen(m.l.openSet)
        current == Head(sorted)
        rest    == Tail(sorted)
    IN  IF Key(current) = goal
        THEN Found([m EXCEPT !.l.openSet = rest], current)
        ELSE [m EXCEPT !.l.openSet = rest,
                       !.l.closedSet = @ \cup {Key(current)},
                       !.l.closed = Append(@, current),
                       !.visited = @ \cup {Key(current)},
                       !.frontier = {Key(n) : n \in Range(rest)},
                       !.l.pc = "delay"]

\* a mutant of aStarLoop: the pause test left out
aStarLoopIgnoresPause(m) ==
    IF Len(m.l.openSet) > 0 /\ m.isRunning THEN aStarPop(m) ELSE LoopExit(m)

\* a mutant of aStarLoop: a pause ends the loop
\* (while (openSet.length > 0 && this.isRunning && !this.isPaused))
aStarLoopStopsOnPause(m) ==
    IF Len(m.l.openSet) > 0 /\ m.isRunning /\ ~m.isPaused THEN aStarPop(m) ELSE LoopExit(m)

\* the loop condition and the pause test
aStarLoop(m) ==
    IF Len(m.l.openSet) > 0 /\ m.isRunning
    THEN IF m.isPaused THEN [m EXCEPT !.l.pc = "wait"] ELSE aStarPop(m)
    ELSE LoopExit(m)

\* a mutant of aStarRelax: the obstacle test `this.grid[neighbor.y][neighbor.x] === 1'
\* left out
aStarRelaxThroughWalls(l, nb) ==
    LET cur        == Len(l.closed)
        current    == l.closed[cur]
        tentativeG == CAdd(current.g, distance(Key(current), nb))
        existing   == FindOpen(l.openSet, nb)
        node       == [x |-> nb[1], y |-> nb[2], g |-> tentativeG,
                       f |-> CAdd(tentativeG, heuristic(nb, goal)), parent |-> cur, seq |-> l.pushes]
    IN  IF nb \in l.closedSet THEN l
        ELSE IF existing = 0
        THEN [l EXCEPT !.openSet = Append(@, node), !.gScores = Put(@, nb, tentativeG),
                       !.pushes = @ + 1]
        ELSE IF CLess(tentativeG, l.gScores[nb])
        THEN [l EXCEPT !.openSet[existing] = [node EXCEPT !.seq = l.openSet[existing].seq],
                       !.gScores = Put(@, nb, tentativeG)]
        ELSE l

\* a mutant of aStarRelax: the test `closedSet.has(neighborKey)' left out
aStarRelaxNoClosed(l, nb) ==
    LET cur        == Len(l.closed)
        current    == l.closed[cur]
        tentativeG == CAdd(current.g, distance(Key(current), nb))
        existing   == FindOpen(l.openSet, nb)
        node       == [x |-> nb[1], y |-> nb[2], g |-> tentativeG,
                       f |-> CAdd(tentativeG, heuristic(nb, goal)), parent |-> cur, seq |-> l.pushes]
    IN  IF grid[nb] = 1 THEN l
        ELSE IF existing = 0
        THEN [l EXCEPT !.openSet = Append(@, node), !.gScores = Put(@, nb, tentativeG),
                       !.pushes = @ + 1]
        ELSE IF CLess(tentativeG, l.gScores[nb])
        THEN [l EXCEPT !.openSet[existing] = [node EXCEPT !.seq = l.openSet[existing].seq],
                       !.gScores = Put(@, nb, tentativeG)]
        ELSE l

\* the body of `for (const neighbor of neighbors)' for the neighbour nb; current
\* is the node expanded last
aStarRelax(l, nb) ==
    LET cur        == Len(l.closed)
        current    == l.closed[cur]
        tentativeG == CAdd(current.g, distance(Key(current), nb))
        existing   == FindOpen(l.openSet, nb)
    IN  IF nb \in l.closedSet \/ grid[nb] = 1 THEN l
        ELSE IF existing = 0
        THEN [l EXCEPT !.openSet = Append(@, [x |-> nb[1], y |-> nb[2],
                                              g |-> tentativeG,
                                              f |-> CAdd(tentativeG, heuristic(nb, goal)),
                                              parent |-> cur, seq |-> l.pushes]),
                       !.gScores = Put(@, nb, tentativeG),
                       !.pushes = @ + 1]
        ELSE IF CLess(tentativeG, l.gScores[nb])
        THEN [l EXCEPT !.openSet[existing] =
                           [@ EXCEPT !.g = tentativeG,
                                     !.f = CAdd(tentativeG, heuristic(nb, goal)),
                                     !.parent = cur],
                       !.gScores = Put(@, nb, tentativeG)]
        ELSE l

RECURSIVE aStarNeighbors(_, _, _)
\* the for loop over the neighbours, from the k-th on
aStarNeighbors(l, nbrs, k) ==
    IF k > Len(nbrs) THEN l ELSE aStarNeighbors(aStarRelax(l, nbrs[k]), nbrs, k + 1)

\* the rest of the loop body after the delay, then the loop again
aStarExpand(m) ==
    LET current == m.l.closed[Len(m.l.closed)]
        l2      == aStarNeighbors(m.l, getNeighbors(Key(current)), 1)
    IN  aStarLoop([m EXCEPT !.l = l2, !.nodesExplored = Cardinality(l2.closedSet)])

----------------------------------------------------------------------------
(* runDijkstra *)

dijkstraInit ==
    [alg |-> "dijkstra", pc |-> "new",
     openSet |-> << [x |-> start[1], y |-> start[2], dist |-> Zero, parent |-> 0, seq |-> 0] >>,
     pushes |-> 1,
     closedSet |-> {},
     distances |-> (start :> Zero),
     closed |-> <<>>,
     seen |-> <<grid, start, goal>>]

RECURSIVE dijkstraLoop(_)

\* a mutant of dijkstraPop: the test `if (closedSet.has(currentKey)) continue'
\* left out
dijkstraPopNoSkip(m) ==
    LET sorted  == SortOpen(m.l.openSet)
        current == Head(sorted)
        rest    == Tail(sorted)
    IN  IF Key(current) = goal
        THEN Found([m EXCEPT !.l.openSet = rest], current)
        ELSE [m EXCEPT !.l.openSet = rest,
                       !.l.closedSet = @ \cup {Key(current)},
                       !.l.closed = Append(@, current),
                       !.visited = @ \cup {Key(current)},
                       !.frontier = {Key(n) : n \in Range(rest)},
                       !.l.pc = "delay"]

\* one pass of the loop body up to the delay; a popped node that is already
\* closed is dropped and the loop goes on (continue)
dijkstraPop(m) ==
    LET sorted  == SortOpen(m.l.openSet)
        current == Head(sorted)
        rest    == Tail(sorted)
    IN  IF Key(current) \in m.l.closedSet
        THEN dijkstraLoop([m EXCEPT !.l.openSet = rest])
        ELSE IF Key(current) = goal
        THEN Found([m EXCEPT !.l.openSet = rest], current)
        ELSE [m EXCEPT !.l.openSet = rest,
                       !.l.closedSet = @ \cup {Key(current)},
                       !.l.closed = Append(@, current),
                       !.visited = @ \cup {Key(current)},
                       !.frontier = {Key(n) : n \in Range(rest)},
                       !.l.pc = "delay"]

dijkstraLoop(m) ==
    IF Len(m.l.openSet) > 0 /\ m.isRunning
    THEN IF m.isPaused THEN [m EXCEPT !.l.pc = "wait"] ELSE dijkstraPop(m)
    ELSE LoopExit(m)

\* a mutant of dijkstraRelax: every step counted 1 (newDist = current.dist + 1)
dijkstraRelaxUnitSteps(l, nb) ==
    LET cur     == Len(l.closed)
        current == l.closed[cur]
        newDist == CAdd(current.dist, <<1, 0>>)
    IN  IF nb \in l.closedSet \/ grid[nb] = 1 THEN l
        ELSE IF nb \notin DOMAIN l.distances \/ CLess(newDist, l.distances[nb])
        THEN [l EXCEPT !.distances = Put(@, nb, newDist),
                       !.openSet = Append(@, [x |-> nb[1], y |-> nb[2],
                                              dist |-> newDist, parent |-> cur, seq |-> l.pushes]),
                       !.pushes = @ + 1]
        ELSE l

\* the body of the for loop over the neighbours, for the neighbour nb
dijkstraRelax(l, nb) ==
    LET cur     == Len(l.closed)
        current == l.closed[cur]
        newDist == CAdd(current.dist, distance(Key(current), nb))
    IN  IF nb \in l.closedSet \/ grid[nb] = 1 THEN l
        ELSE IF nb \notin DOMAIN l.distances \/ CLess(newDist, l.distances[nb])
        THEN [l EXCEPT !.distances = Put(@, nb, newDist),
                       !.openSet = Append(@, [x |-> nb[1], y |-> nb[2],
                                              dist |-> newDist, parent |-> cur, seq |-> l.pushes]),
                       !.pushes = @ + 1]
        ELSE l

RECURSIVE dijkstraNeighbors(_, _, _)
dijkstraNeighbors(l, nbrs, k) ==
    IF k > Len(nbrs) THEN l ELSE dijkstraNeighbors(dijkstraRelax(l, nbrs[k]), nbrs, k + 1)

\* the rest of the loop body after the delay, then the loop again
dijkstraExpand(m) ==
    LET current == m.l.closed[Len(m.l.closed)]
        l2      == dijkstraNeighbors(m.l, getNeighbors(Key(current)), 1)
    IN  dijkstraLoop([m EXCEPT !.l = l2, !.nodesExplored = Cardinality(l2.closedSet)])

----------------------------------------------------------------------------
(* runRRT.  Points are kept on the integer lattice: a sample is the goal or a  *)
(* lattice point, and an attempt is followed only when the sample lies on the  *)
(* row or the column of its nearest node, so that the new node, two units      *)
(* along that row or column, is a lattice point again.                         *)

\* const maxIterations = 2000, cut down to keep the runs short
MaxIterations == 3

stepSize == 2

\* the squared distance; distance(a, b) < distance(c, d) iff DistSq(a, b) < DistSq(c, d)
DistSq(a, b) == (a[1] - b[1]) * (a[1] - b[1]) + (a[2] - b[2]) * (a[2] - b[2])

\* Math.ceil(Math.sqrt(n)) for a natural n
CeilSqrt(n) == MinOf({k \in 0 .. n : k * k >= n})

Pt(n) == <<n.x, n.y>>

\* nodes and the loop counter i; attempts counts the sample attempts made
rrtInit ==
    [alg |-> "rrt", pc |-> "iter",
     nodes |-> << [x |-> start[1], y |-> start[2], parent |-> 0] >>,
     i |-> 0,
     attempts |-> 0,
     seen |-> <<grid, start, goal>>]

\* what Math.random() can make randomPoint: the goal, or a point of the grid
SamplePoints == Cells \cup {goal}

\* the nearest node: the first of the list at the least distance
Nearest(nodes, p) ==
    MinOf({j \in 1 .. Len(nodes) :
             \A k \in 1 .. Len(nodes) : DistSq(Pt(nodes[j]), p) <= DistSq(Pt(nodes[k]), p)})

\* the sample lies on the row or column of the node (atan2 is a multiple of pi/2)
Aligned(n, p) == p[1] = n[1] \/ p[2] = n[2]

\* nearest + (cos(angle), sin(angle)) * stepSize with angle = atan2(p.y - n.y, p.x - n.x),
\* for an aligned sample; atan2(0, 0) is 0
StepTowards(n, p) ==
    IF p[2] = n[2]
    THEN IF p[1] >= n[1] THEN <<n[1] + stepSize, n[2]>> ELSE <<n[1] - stepSize, n[2]>>
    ELSE IF p[2] > n[2] THEN <<n[1], n[2] + stepSize>> ELSE <<n[1], n[2] - stepSize>>

\* a mutant of lineCollision: only the cell of the end point is looked at
lineCollisionEndOnly(from, to) ==
    /\ to[1] >= 0 /\ to[1] < gridSize /\ to[2] >= 0 /\ to[2] < gridSize
    /\ grid[to] = 1

\* lineCollision(from, to): steps = ceil(2 * distance), the cells of the points
\* from + (to - from) * i / steps.  With from = to, steps is 0 and t = 0 / 0 is
\* NaN: x and y are NaN, the bounds test fails and the result is false.
lineCollision(from, to) ==
    LET steps == CeilSqrt(4 * DistSq(from, to))
    IN  /\ steps > 0
        /\ \E i \in 0 .. steps :
              LET x == (from[1] * steps + (to[1] - from[1]) * i) \div steps
                  y == (from[2] * steps + (to[2] - from[2]) * i) \div steps
              IN  /\ x >= 0 /\ x < gridSize /\ y >= 0 /\ y < gridSize
                  /\ grid[<<x, y>>] = 1

RECURSIVE RRTChain(_, _)
RRTChain(nodes, idx) ==
    IF idx = 0 THEN <<>>
    ELSE Append(RRTChain(nodes, nodes[idx].parent), Pt(nodes[idx]))

\* reconstructRRTPath(endNode)
reconstructRRTPath(nodes, idx) == RRTChain(nodes, idx)

\* the end of one pass of the for loop: nodesExplored, then i++
rrtNext(m) ==
    [m EXCEPT !.nodesExplored = Len(m.l.nodes), !.l.i = @ + 1, !.l.pc = "iter"]

\* a mutant of rrtAttempt: an attempt that leaves the grid does not advance the
\* loop counter
rrtAttemptFreeRejects(m, randomPoint) ==
    LET m1      == [m EXCEPT !.l.attempts = @ + 1]
        nodes   == m.l.nodes
        near    == Nearest(nodes, randomPoint)
        nearest == Pt(nodes[near])
        newPt   == StepTowards(nearest, randomPoint)
        grown   == Append(nodes, [x |-> newPt[1], y |-> newPt[2], parent |-> near])
        withGoal == Append(grown, [x |-> goal[1], y |-> goal[2], parent |-> Len(grown)])
    IN  IF newPt[1] < 0 \/ newPt[1] >= gridSize \/ newPt[2] < 0 \/ newPt[2] >= gridSize
        THEN [m1 EXCEPT !.l.pc = "iter"]
        ELSE IF lineCollision(nearest, newPt)
        THEN rrtNext(m1)
        ELSE IF DistSq(newPt, goal) < stepSize * stepSize
        THEN [m1 EXCEPT !.l.nodes = withGoal,
                        !.rrtTree = withGoal,
                        !.path = reconstructRRTPath(withGoal, Len(withGoal)),
                        !.plannerStatus = "Path Found!",
                        !.isRunning = FALSE,
                        !.l.pc = "done"]
        ELSE IF m.l.i % 5 = 0
        THEN [m1 EXCEPT !.l.nodes = grown, !.rrtTree = grown, !.l.pc = "delay"]
        ELSE rrtNext([m1 EXCEPT !.l.nodes = grown, !.rrtTree = grown])

\* one sample attempt, from the sample to the end of the pass or to the delay
rrtAttempt(m, randomPoint) ==
    LET m1      == [m EXCEPT !.l.attempts = @ + 1]
        nodes   == m.l.nodes
        near    == Nearest(nodes, randomPoint)
        nearest == Pt(nodes[near])
        newPt   == StepTowards(nearest, randomPoint)
        grown   == Append(nodes, [x |-> newPt[1], y |-> newPt[2], parent |-> near])
        withGoal == Append(grown, [x |-> goal[1], y |-> goal[2], parent |-> Len(grown)])
    IN  IF newPt[1] < 0 \/ newPt[1] >= gridSize \/ newPt[2] < 0 \/ newPt[2] >= gridSize
        THEN [m1 EXCEPT !.l.i = @ + 1, !.l.pc = "iter"]            \* continue
        ELSE IF lineCollision(nearest, newPt)
        THEN rrtNext(m1)
        ELSE IF DistSq(newPt, goal) < stepSize * stepSize
        THEN [m1 EXCEPT !.l.nodes = withGoal,
                        !.rrtTree = withGoal,
                        !.path = reconstructRRTPath(withGoal, Len(withGoal)),
                        !.plannerStatus = "Path Found!",
                        !.isRunning = FALSE,
                        !.l.pc = "done"]
        ELSE IF m.l.i % 5 = 0
        THEN [m1 EXCEPT !.l.nodes = grown, !.rrtTree = grown, !.l.pc = "delay"]
        ELSE rrtNext([m1 EXCEPT !.l.nodes = grown, !.rrtTree = grown])

\* the loop condition and the pause test of one pass
rrtLoop(m, randomPoint) ==
    IF m.l.i < MaxIterations /\ m.isRunning
    THEN IF m.isPaused THEN [m EXCEPT !.l.pc = "wait"] ELSE rrtAttempt(m, randomPoint)
    ELSE LoopExit(m)

\* can the model follow this attempt?
Followed(l, randomPoint) ==
    Aligned(Pt(l.nodes[Nearest(l.nodes, randomPoint)]), randomPoint)

----------------------------------------------------------------------------
(* The grid of the constructor and of reset() *)

\* this.gridSize = 25
FullGrid == 25

\* addDefaultObstacles on the 25 x 25 grid, as cells <<x, y>>
FullObstacles ==
    {<<8, y>> : y \in 3 .. 9} \cup {<<8, y>> : y \in 15 .. 21}
      \cup {<<16, y>> : y \in 5 .. 19}
      \cup {<<x, 6>> : x \in 10 .. 15} \cup {<<x, 18>> : x \in 10 .. 13}
      \cup {<<5, 5>>, <<6, 5>>, <<5, 6>>, <<3, 19>>, <<3, 20>>, <<4, 19>>,
            <<19, 4>>, <<19, 5>>, <<20, 4>>}

\* the default layout: the source's on the 25 x 25 grid; on a smaller grid a
\* wall from the top edge down to the middle row, in the middle column
addDefaultObstacles(n) ==
    IF n = FullGrid THEN FullObstacles
    ELSE {<<n \div 2, y>> : y \in 0 .. (n \div 2) - 1}

\* initGrid(): all cells empty, then the default obstacles
initGrid(n) ==
    [c \in (0 .. n - 1) \X (0 .. n - 1) |-> IF c \in addDefaultObstacles(n) THEN 1 ELSE 0]

\* this.start = {x: 2, y: 12}; on a smaller grid the middle of the left edge
DefaultStart(n) == IF n = FullGrid THEN <<2, 12>> ELSE <<0, n \div 2>>

\* this.goal = {x: 22, y: 12}; on a smaller grid the middle of the right edge
DefaultGoal(n) == IF n = FullGrid THEN <<22, 12>> ELSE <<n - 1, n \div 2>>

Algorithms == {"astar", "dijkstra", "rrt"}

DrawModes == {"obstacle", "erase", "start", "goal"}

----------------------------------------------------------------------------
(* Writing a machine back, and the handlers *)

\* no search is in the middle of a task: a handler or a timer callback can run
Quiet == \A k \in DOMAIN loops : loops[k].pc # "iter"

RemoveAt(s, k) == SubSeq(s, 1, k - 1) \o SubSeq(s, k + 1, Len(s))

SetPlanner(m) ==
    /\ isRunning' = m.isRunning
    /\ path' = m.path
    /\ visited' = m.visited
    /\ frontier' = m.frontier
    /\ rrtTree' = m.rrtTree
    /\ plannerStatus' = m.plannerStatus
    /\ nodesExplored' = m.nodesExplored

\* the invocation number k has run up to its next await, or has returned
Commit(k, m) ==
    /\ SetPlanner(m)
    /\ loops' = IF m.l.pc = "done" THEN RemoveAt(loops, k) ELSE [loops EXCEPT ![k] = m.l]
    /\ UNCHANGED <<gridSize, grid, start, goal, currentAlgorithm, isPaused, draws>>

\* clearPath(): stopRunning(), then path, visited, frontier, rrtTree and the texts
Cleared(l) ==
    [l |-> l, isRunning |-> FALSE, isPaused |-> FALSE, path |-> <<>>, visited |-> {},
     frontier |-> {},
     rrtTree |-> NoTree, plannerStatus |-> "Ready", nodesExplored |-> 0]

clearPath ==
    /\ SetPlanner(Cleared(<<>>))
    /\ isPaused' = FALSE

\* #clearPathBtn
ClearPath ==
    /\ Quiet
    /\ clearPath
    /\ UNCHANGED <<gridSize, grid, start, goal, currentAlgorithm, loops, draws>>

\* an .algo-btn: this.currentAlgorithm = btn.dataset.algo; this.clearPath()
SelectAlgorithm(a) ==
    /\ Quiet
    /\ currentAlgorithm' = a
    /\ clearPath
    /\ UNCHANGED <<gridSize, grid, start, goal, loops, draws>>

\* a mutant of Reset: this.initGrid() left out
ResetKeepsGrid ==
    /\ Quiet
    /\ start' = DefaultStart(gridSize)
    /\ goal' = DefaultGoal(gridSize)
    /\ clearPath
    /\ UNCHANGED <<gridSize, grid, currentAlgorithm, loops, draws>>

\* reset()
Reset ==
    /\ Quiet
    /\ start' = DefaultStart(gridSize)
    /\ goal' = DefaultGoal(gridSize)
    /\ grid' = initGrid(gridSize)
    /\ clearPath
    /\ UNCHANGED <<gridSize, currentAlgorithm, loops, draws>>

\* togglePause(); it returns at once when no run is on
TogglePause ==
    /\ Quiet
    /\ isRunning
    /\ isPaused' = ~isPaused
    /\ plannerStatus' = IF isPaused THEN "Searching..." ELSE "Paused"
    /\ UNCHANGED <<gridSize, grid, start, goal, currentAlgorithm, isRunning, path, visited,
                   frontier, rrtTree, nodesExplored, loops, draws>>

\* a mutant of HandleDraw: the test `Don't draw on start or goal' left out
HandleDrawAnywhere(mode, pos) ==
    /\ Quiet
    /\ ~isRunning
    /\ grid' = IF mode = "obstacle" THEN [grid EXCEPT ![pos] = 1]
               ELSE IF mode = "erase" THEN [grid EXCEPT ![pos] = 0]
               ELSE grid
    /\ start' = IF mode = "start" /\ grid[pos] = 0 THEN pos ELSE start
    /\ goal' = IF mode = "goal" /\ grid[pos] = 0 THEN pos ELSE goal
    /\ clearPath
    /\ draws' = draws + 1
    /\ UNCHANGED <<gridSize, currentAlgorithm, loops>>

\* a mutant of HandleDraw: the test `if (this.isRunning) return' left out
HandleDrawWhileRunning(mode, pos) ==
    /\ Quiet
    /\ ~(mode \in {"obstacle", "erase"} /\ (pos = start \/ pos = goal))
    /\ grid' = IF mode = "obstacle" THEN [grid EXCEPT ![pos] = 1]
               ELSE IF mode = "erase" THEN [grid EXCEPT ![pos] = 0]
               ELSE grid
    /\ start' = IF mode = "start" /\ grid[pos] = 0 THEN pos ELSE start
    /\ goal' = IF mode = "goal" /\ grid[pos] = 0 THEN pos ELSE goal
    /\ clearPath
    /\ draws' = draws + 1
    /\ UNCHANGED <<gridSize, currentAlgorithm, loops>>

\* handleDraw(pos) with this.drawMode = mode (the mode buttons set drawMode, and
\* only handleDraw reads it).  It returns at once during a run, and in the modes
\* obstacle and erase on the start or the goal.
HandleDraw(mode, pos) ==
    /\ Quiet
    /\ ~isRunning
    /\ ~(mode \in {"obstacle", "erase"} /\ (pos = start \/ pos = goal))
    /\ grid' = IF mode = "obstacle" THEN [grid EXCEPT ![pos] = 1]
               ELSE IF mode = "erase" THEN [grid EXCEPT ![pos] = 0]
               ELSE grid
    /\ start' = IF mode = "start" /\ grid[pos] = 0 THEN pos ELSE start
    /\ goal' = IF mode = "goal" /\ grid[pos] = 0 THEN pos ELSE goal
    /\ clearPath
    /\ draws' = draws + 1
    /\ UNCHANGED <<gridSize, currentAlgorithm, loops>>

\* handleDraw(pos) returning at once: during a run, or in the modes obstacle and
\* erase on the start or the goal.  The planner is left as it is; only the call
\* is counted.
HandleDrawReturns(mode, pos) ==
    /\ Quiet
    /\ isRunning \/ (mode \in {"obstacle", "erase"} /\ (pos = start \/ pos = goal))
    /\ draws' = draws + 1
    /\ UNCHANGED <<gridSize, grid, start, goal, currentAlgorithm, isRunning, isPaused, path,
                   visited, frontier, rrtTree, plannerStatus, nodesExplored, loops>>

\* the searches a run() can start
startSearch(m0) ==
    IF currentAlgorithm = "astar" THEN aStarLoop([m0 EXCEPT !.l = aStarInit])
    ELSE IF currentAlgorithm = "dijkstra" THEN dijkstraLoop([m0 EXCEPT !.l = dijkstraInit])
    ELSE [m0 EXCEPT !.l = rrtInit, !.rrtTree = rrtInit.nodes]

\* run().  Paused: isPaused = false, then this.processAnimationQueue(), which
\* the class does not define (a TypeError that rejects run()'s promise).
\* Otherwise clearPath(), isRunning = true, 'Searching...', and the search runs
\* up to its first await.
Run ==
    /\ Quiet
    /\ ~(isRunning /\ ~isPaused)
    /\ IF isPaused
       THEN /\ isPaused' = FALSE
            /\ UNCHANGED <<gridSize, grid, start, goal, currentAlgorithm, isRunning, path,
                           visited, frontier, rrtTree, plannerStatus, nodesExplored,
                           loops, draws>>
       ELSE /\ Len(loops) < MaxLoops
            /\ LET m == startSearch([Cleared(<<>>) EXCEPT !.isRunning = TRUE,
                                                          !.plannerStatus = "Searching..."])
               IN  /\ SetPlanner(m)
                   /\ loops' = IF m.l.pc = "done" THEN loops ELSE Append(loops, m.l)
            /\ isPaused' = FALSE
            /\ UNCHANGED <<gridSize, grid, start, goal, currentAlgorithm, draws>>

\* the timer of delay(ms) fires for the invocation number k
DelayExpires(k) ==
    /\ Quiet
    /\ loops[k].pc = "delay"
    /\ Commit(k, IF loops[k].alg = "astar" THEN aStarExpand(Machine(loops[k]))
                 ELSE IF loops[k].alg = "dijkstra" THEN dijkstraExpand(Machine(loops[k]))
                 ELSE rrtNext(Machine(loops[k])))

\* checkResume() of waitForResume finds isPaused false and resolves: the grid
\* search number k goes on with its loop body.  (While isPaused is true
\* checkResume only sets its 100 ms timer again.)
ResumePoll(k) ==
    /\ Quiet
    /\ loops[k].pc = "wait"
    /\ loops[k].alg # "rrt"
    /\ ~isPaused
    /\ Commit(k, IF loops[k].alg = "astar" THEN aStarPop(Machine(loops[k]))
                 ELSE dijkstraPop(Machine(loops[k])))

\* the same for the RRT run number k, which goes on with a sample attempt
RRTResume(k, randomPoint) ==
    /\ Quiet
    /\ loops[k].pc = "wait"
    /\ loops[k].alg = "rrt"
    /\ ~isPaused
    /\ Followed(loops[k], randomPoint)
    /\ Commit(k, rrtAttempt(Machine(loops[k]), randomPoint))

\* one pass of the for loop of the RRT run number k, within its task
RRTIterate(k, randomPoint) ==
    /\ loops[k].pc = "iter"
    /\ Followed(loops[k], randomPoint)
    /\ Commit(k, rrtLoop(Machine(loops[k]), randomPoint))

----------------------------------------------------------------------------
(* The planner: the state after the constructor, and every handler and timer *)

Init ==
    /\ gridSize = SmallGrid
    /\ grid = initGrid(SmallGrid)
    /\ start = DefaultStart(SmallGrid)
    /\ goal = DefaultGoal(SmallGrid)
    /\ currentAlgorithm = "astar"
    /\ isRunning = FALSE
    /\ isPaused = FALSE
    /\ path = <<>>
    /\ visited = {}
    /\ frontier = {}
    /\ rrtTree = NoTree
    /\ plannerStatus = "Ready"
    /\ nodesExplored = 0
    /\ loops = <<>>
    /\ draws = 0

Draw == draws < MaxDraws /\ \E mode \in DrawModes, pos \in Cells : HandleDraw(mode, pos)

Next ==
    \/ Run
    \/ TogglePause
    \/ ClearPath
    \/ Reset
    \/ \E a \in Algorithms : SelectAlgorithm(a)
    \/ Draw
    \/ \E k \in DOMAIN loops : DelayExpires(k)
    \/ \E k \in DOMAIN loops : ResumePoll(k)
    \/ \E k \in DOMAIN loops, p \in SamplePoints : RRTResume(k, p)
    \/ \E k \in DOMAIN loops, p \in SamplePoints : RRTIterate(k, p)

Spec == Init /\ [][Next]_vars

----------------------------------------------------------------------------
(* The grid searches alone: a run of A* or Dijkstra from a grid, a start and  *)
(* a goal that the editing handlers can produce, let run to its end.          *)

Grids ==
    {[c \in (0 .. SmallGrid - 1) \X (0 .. SmallGrid - 1) |-> IF c \in S THEN 1 ELSE 0] :
        S \in {T \in SUBSET ((0 .. SmallGrid - 1) \X (0 .. SmallGrid - 1)) :
                 Cardinality(T) <= MaxObstacles}}

InitSearch ==
    /\ gridSize = SmallGrid
    /\ grid \in Grids
    /\ start \in {c \in Cells : grid[c] = 0}
    /\ goal \in {c \in Cells : grid[c] = 0}
    /\ currentAlgorithm \in {"astar", "dijkstra"}
    /\ isRunning = FALSE
    /\ isPaused = FALSE
    /\ path = <<>>
    /\ visited = {}
    /\ frontier = {}
    /\ rrtTree = NoTree
    /\ plannerStatus = "Ready"
    /\ nodesExplored = 0
    /\ loops = <<>>
    /\ draws = 0

NextSearch ==
    \/ Run
    \/ \E k \in DOMAIN loops : DelayExpires(k)

SpecSearch == InitSearch /\ [][NextSearch]_vars

----------------------------------------------------------------------------
(* The metric the claims speak of, stated on its own: moves between empty     *)
(* cells to one of the 8 neighbours, a diagonal move only when both cells     *)
(* beside it are free of obstacles; 1 per orthogonal move, sqrt(2) per        *)
(* diagonal move.                                                             *)

IsDiagonal(a, b) == a[1] # b[1] /\ a[2] # b[2]

Adjacent8(a, b) == a # b /\ Abs(a[1] - b[1]) <= 1 /\ Abs(a[2] - b[2]) <= 1

CornerFree(a, b) == grid[<<b[1], a[2]>>] # 1 /\ grid[<<a[1], b[2]>>] # 1

LegalMove(a, b) ==
    /\ a \in Cells /\ b \in Cells
    /\ grid[a] = 0 /\ grid[b] = 0
    /\ Adjacent8(a, b)
    /\ IsDiagonal(a, b) => CornerFree(a, b)

MoveCost(a, b) == IF IsDiagonal(a, b) THEN <<0, 1>> ELSE <<1, 0>>

RECURSIVE PathCost(_)
PathCost(p) ==
    IF Len(p) <= 1 THEN Zero
    ELSE CAdd(MoveCost(p[1], p[2]), PathCost(Tail(p)))

IsLegalPath(p) == \A i \in 1 .. Len(p) - 1 : LegalMove(p[i], p[i + 1])

CMinOf(S) == CHOOSE m \in S : \A n \in S : ~CLess(n, m)

\* the cost that the set S of pairs <<cell, cost>> gives the cell c
CostIn(S, c) == (CHOOSE p \in S : p[1] = c)[2]

RECURSIVE Settle(_, _)
\* at most k rounds of relaxing every legal move, until nothing changes; S holds
\* <<c, d>> for every cell c found so far, d the least cost found from the start to c
Settle(S, k) ==
    LET R == {p[1] : p \in S}
        N == R \cup {c \in Cells : \E q \in R : LegalMove(q, c)}
        T == {<<c, CMinOf((IF c \in R THEN {CostIn(S, c)} ELSE {})
                            \cup {CAdd(CostIn(S, q), MoveCost(q, c)) :
                                    q \in {r \in R : LegalMove(r, c)}})>> : c \in N}
    IN  IF k = 0 \/ T = S THEN S ELSE Settle(T, k - 1)

\* the least cost of a legal path from the start to every cell that has one
ShortestCosts == Settle({<<start, Zero>>}, gridSize * gridSize)

Reachable == \E p \in ShortestCosts : p[1] = goal

\* the least cost of a legal path from the start to the goal, when Reachable
ShortestCost == CostIn(ShortestCosts, goal)

Ended == {"Path Found!", "No Path Found"}

----------------------------------------------------------------------------
(* Claims on the grid searches, under SpecSearch *)

\* C1: whenever a path exists, a run of A* ends with a legal path from the start
\* to the goal whose cost (1 per orthogonal step, sqrt(2) per diagonal step) is the
\* least cost of all such paths.
C1_AStarOptimal ==
    (currentAlgorithm = "astar" /\ plannerStatus \in Ended /\ Reachable)
      => /\ plannerStatus = "Path Found!"
         /\ path # <<>> /\ path[1] = start /\ path[Len(path)] = goal
         /\ IsLegalPath(path)
         /\ PathCost(path) = ShortestCost

\* an A* run that found a path longer than the octile distance: obstacles forced a detour
C1_Witness ==
    /\ currentAlgorithm = "astar"
    /\ plannerStatus = "Path Found!"
    /\ CLess(heuristic(start, goal), PathCost(path))

\* C2: in a path produced by A* or Dijkstra, neither cell beside a diagonal step
\* is an obstacle.
C2_NoCornerCutting ==
    \A i \in 1 .. Len(path) - 1 :
        IsDiagonal(path[i], path[i + 1]) => CornerFree(path[i], path[i + 1])

\* a found path with a diagonal step, one of whose cells has another diagonal
\* neighbour, empty, that only a cut corner would reach
C2_Witness ==
    /\ plannerStatus = "Path Found!"
    /\ \E i \in 1 .. Len(path) - 1 : IsDiagonal(path[i], path[i + 1])
    /\ \E i \in 1 .. Len(path) : \E d \in Cells :
          /\ grid[d] = 0 /\ Adjacent8(path[i], d) /\ IsDiagonal(path[i], d)
          /\ ~CornerFree(path[i], d)

\* C3: a run of A* or Dijkstra left to run ends Found exactly when the goal can
\* be reached from the start, and otherwise ends Exhausted with an empty path.
C3_FoundIffReachable ==
    (~isRunning /\ plannerStatus # "Ready")
      => IF Reachable THEN plannerStatus = "Path Found!"
         ELSE plannerStatus = "No Path Found" /\ path = <<>>

\* a run that ended Exhausted after expanding several cells
C3_Witness ==
    /\ plannerStatus = "No Path Found"
    /\ Cardinality(visited) >= 2

\* C10: an A* or Dijkstra run that has not ended has made fewer than
\* gridSize * gridSize expansions, so the count never exceeds that number and a
\* run that reached it has ended.
C10_ExpansionsBounded ==
    /\ \A k \in DOMAIN loops : Len(loops[k].closed) < gridSize * gridSize
    /\ nodesExplored <= gridSize * gridSize
    /\ Cardinality(visited) <= gridSize * gridSize

\* a run that has expanded every cell but the goal
C10_Witness ==
    \E k \in DOMAIN loops : Len(loops[k].closed) = gridSize * gridSize - 1

----------------------------------------------------------------------------
(* A grid search with pauses: one run of A* or Dijkstra, and togglePause() at *)
(* any moment of it.                                                          *)

\* run() when no search is on
RunIdle == ~isRunning /\ Run

NextPause ==
    \/ RunIdle
    \/ TogglePause
    \/ \E k \in DOMAIN loops : DelayExpires(k)
    \/ \E k \in DOMAIN loops : ResumePoll(k)

SpecPause == InitSearch /\ [][NextPause]_vars

RECURSIVE RunOn(_)
\* a grid search carried from one delay to the next until it returns
RunOn(m) ==
    IF m.l.pc = "done" THEN m
    ELSE RunOn(IF m.l.alg = "astar" THEN aStarExpand(m) ELSE dijkstraExpand(m))

\* the run of the current algorithm on the current grid that is never paused
Unpaused ==
    RunOn(startSearch([Cleared(<<>>) EXCEPT !.isRunning = TRUE,
                                            !.plannerStatus = "Searching..."]))

\* C8: a run of A* or Dijkstra with togglePause() calls at any points ends with
\* the status, the path and the expansions (the visited cells and the explored
\* count) of the run of the same algorithm that is never paused.
C8_PauseEquivalence ==
    (~isRunning /\ plannerStatus \in Ended)
      => LET r == Unpaused
         IN  /\ plannerStatus = r.plannerStatus
             /\ path = r.path
             /\ visited = r.visited
             /\ nodesExplored = r.nodesExplored

\* a run that stopped for a pause after two expansions, now un-paused and about
\* to go on
C8_Witness ==
    \E k \in DOMAIN loops :
        loops[k].pc = "wait" /\ ~isPaused /\ isRunning /\ Len(loops[k].closed) >= 2

----------------------------------------------------------------------------
(* Editing alone: handleDraw and reset() from the constructor's state *)

\* most handleDraw calls in one behaviour of SpecEdit
MaxEdits == 3

NextEdit ==
    \/ draws < MaxEdits /\ \E mode \in DrawModes, pos \in Cells : HandleDraw(mode, pos)
    \/ Reset

SpecEdit == Init /\ [][NextEdit]_vars

\* C9: after any handleDraw and reset() calls the start cell and the goal cell
\* are empty; and the constructor's start and goal are off the default obstacles
\* of the 25 x 25 grid, which is what reset() relies on.
C9_StartGoalEmpty ==
    /\ grid[start] = 0 /\ grid[goal] = 0
    /\ DefaultStart(FullGrid) \notin addDefaultObstacles(FullGrid)
    /\ DefaultGoal(FullGrid) \notin addDefaultObstacles(FullGrid)

\* the start and the goal have been moved and the cells they left made obstacles
C9_Witness ==
    /\ start # DefaultStart(gridSize) /\ grid[DefaultStart(gridSize)] = 1
    /\ draws >= 2

----------------------------------------------------------------------------
(* Claims on the planner with all its handlers and timers, under Spec *)

\* C4: the path is empty unless a run has ended Found, and a path that A* or
\* Dijkstra found (no RRT tree is set) goes from the start to the goal by steps
\* between distinct 8-neighbours.
C4_PathOnlyWhenFound ==
    /\ path # <<>> => plannerStatus = "Path Found!"
    /\ (plannerStatus = "Path Found!" /\ rrtTree = NoTree)
         => /\ path # <<>>
            /\ path[1] = start
            /\ path[Len(path)] = goal
            /\ \A i \in 1 .. Len(path) - 1 : Adjacent8(path[i], path[i + 1])

\* what the invocation l does when its timer fires (with no pause in its way)
AfterTimer(l) ==
    LET m == [Machine(l) EXCEPT !.isPaused = FALSE]
    IN  IF l.alg = "astar" THEN (IF l.pc = "delay" THEN aStarExpand(m) ELSE aStarPop(m))
        ELSE IF l.alg = "dijkstra"
        THEN (IF l.pc = "delay" THEN dijkstraExpand(m) ELSE dijkstraPop(m))
        ELSE m

\* the invocation l has a further step to execute: a grid search that will pop
\* another node, an RRT run that will make another attempt
GoesOn(l) ==
    IF l.alg = "rrt"
    THEN l.pc = "wait"
           \/ (isRunning /\ (IF l.pc = "delay" THEN l.i + 1 ELSE l.i) < MaxIterations)
    ELSE LET m == AfterTimer(l)
         IN  Len(m.l.closed) > Len(l.closed) \/ m.path # path

\* C5: at most one search is live: there are never two invocations of runAStar,
\* runDijkstra or runRRT that both go on to execute further steps.
C5_OneLiveSearch == Cardinality({k \in DOMAIN loops : GoesOn(loops[k])}) <= 1

\* no run is on and nothing of a run is shown
CleanIdle ==
    /\ ~isRunning
    /\ plannerStatus = "Ready"
    /\ path = <<>> /\ visited = {} /\ frontier = {} /\ rrtTree = NoTree
    /\ nodesExplored = 0

\* C6: once a run has been cancelled (clearPath(), reset(), an algorithm
\* switch), visited, frontier, path and the RRT tree stay empty, the explored
\* count stays 0 and the status stays Ready until the next run().
C6_CancelledRunIsSilent == [][(CleanIdle /\ ~Run) => CleanIdle']_vars

\* C7: while the session stays Paused nothing is added to visited, to the path
\* or to the RRT tree.
C7_PausedAddsNothing ==
    [][(isPaused /\ isPaused') => (visited' = visited /\ path' = path /\ rrtTree' = rrtTree)]_vars

\* a search that found the session Paused at the top of its loop and waits, with
\* cells already visited
C7_Witness ==
    /\ isPaused
    /\ visited # {}
    /\ \E k \in DOMAIN loops : loops[k].pc = "wait"

----------------------------------------------------------------------------
(* A* against Dijkstra, under SpecSearch *)

\* the state a run() starts a search from
Fresh == [Cleared(<<>>) EXCEPT !.isRunning = TRUE, !.plannerStatus = "Searching..."]

\* runAStar on the current grid, from its start to its return with no pause
AStarRun == RunOn(aStarLoop([Fresh EXCEPT !.l = aStarInit]))

\* runDijkstra on the current grid, from its start to its return with no pause
DijkstraRun == RunOn(dijkstraLoop([Fresh EXCEPT !.l = dijkstraInit]))

\* C11: on every grid where the goal can be reached, runAStar and runDijkstra both
\* end Found, and the path of the one has the cost of the path of the other.
C11_DijkstraCostEqualsAStar ==
    (plannerStatus \in Ended /\ Reachable)
      => /\ AStarRun.plannerStatus = "Path Found!"
         /\ DijkstraRun.plannerStatus = "Path Found!"
         /\ PathCost(path) = PathCost(IF currentAlgorithm = "astar" THEN DijkstraRun.path
                                      ELSE AStarRun.path)

\* a Dijkstra run that found a path of several steps which is not the path A* finds
C11_Witness ==
    /\ currentAlgorithm = "dijkstra"
    /\ plannerStatus = "Path Found!"
    /\ Len(path) >= 3
    /\ path # AStarRun.path

----------------------------------------------------------------------------
(* Drawing during a run: one run of A* or Dijkstra with pauses, and handleDraw  *)
(* calls made while isRunning is true.                                          *)

\* a handleDraw call, in any mode on any cell, made while a run is on
DrawDuringRun ==
    /\ isRunning
    /\ draws < MaxDraws
    /\ \E mode \in DrawModes, pos \in Cells :
          HandleDraw(mode, pos) \/ HandleDrawReturns(mode, pos)

NextDraw ==
    \/ RunIdle
    \/ TogglePause
    \/ \E k \in DOMAIN loops : DelayExpires(k)
    \/ \E k \in DOMAIN loops : ResumePoll(k)
    \/ DrawDuringRun

SpecDraw == InitSearch /\ [][NextDraw]_vars

\* C12: a handleDraw call made while isRunning is true leaves the grid, the
\* start and the goal as they are.
C12_DrawIgnoredDuringRun ==
    [][(isRunning /\ draws' # draws) => (grid' = grid /\ start' = start /\ goal' = goal)]_vars

\* a paused run with cells visited that has received a handleDraw call
C12_Witness ==
    /\ isRunning /\ isPaused
    /\ draws >= 1
    /\ Cardinality(visited) >= 2

----------------------------------------------------------------------------
(* Claims on the editing handlers and on run(), under Spec and SpecPause *)

\* C13: handleDraw in the mode start or goal on an obstacle cell changes nothing:
\* the start, the goal, the grid, and the path, visited and frontier that an
\* earlier run left are as before.
C13_MarkerOnObstacleIsNoOp ==
    [][(\E pos \in Cells :
           grid[pos] = 1 /\ (HandleDraw("start", pos) \/ HandleDraw("goal", pos)))
         => UNCHANGED <<start, goal, grid, path, visited, frontier>>]_vars

\* C20: isPaused implies isRunning: when a run has ended the paused flag is false.
C20_PausedImpliesRunning == isPaused => isRunning

\* C14: a run() call made when no search is running starts a new search: what the
\* previous run left is discarded (at the first await of the new search visited
\* holds at most the start, the frontier is empty and the path is empty, or the
\* start alone when the start is the goal) and the status is Running, or already
\* Found when the start is the goal.
C14_RunStartsSearch ==
    [][(~isRunning /\ Run)
         => /\ plannerStatus' \in {"Searching...", "Path Found!"}
            /\ isRunning' \/ plannerStatus' = "Path Found!"
            /\ visited' \subseteq {start}
            /\ frontier' = {}
            /\ path' \in {<<>>, <<start>>}]_vars

----------------------------------------------------------------------------
(* One search on the grid of the page: the 25 x 25 grid with the constructor's  *)
(* start and goal, its obstacles the default layout or none, with or without a  *)
(* wall down a whole column; and the same on the small grid, where the few      *)
(* iterations of the model's RRT run reach the wall.                            *)

\* the column of the wall: 12 of 25, the middle column of a smaller grid
WallColumn(n) == IF n = FullGrid THEN 12 ELSE n \div 2

\* the grid of side n with no obstacle
EmptyGrid(n) == [c \in (0 .. n - 1) \X (0 .. n - 1) |-> 0]

\* the grid g of side n with every cell of the wall column made an obstacle
WithWall(g, n) == [c \in (0 .. n - 1) \X (0 .. n - 1) |-> IF c[1] = WallColumn(n) THEN 1 ELSE g[c]]

HasWall == \A y \in 0 .. gridSize - 1 : grid[<<WallColumn(gridSize), y>>] = 1

InitFull ==
    /\ gridSize \in {FullGrid, SmallGrid}
    /\ grid \in {EmptyGrid(gridSize), initGrid(gridSize),
                  WithWall(EmptyGrid(gridSize), gridSize), WithWall(initGrid(gridSize), gridSize)}
    /\ start = DefaultStart(gridSize)
    /\ goal = DefaultGoal(gridSize)
    /\ currentAlgorithm \in Algorithms
    /\ isRunning = FALSE
    /\ isPaused = FALSE
    /\ path = <<>>
    /\ visited = {}
    /\ frontier = {}
    /\ rrtTree = NoTree
    /\ plannerStatus = "Ready"
    /\ nodesExplored = 0
    /\ loops = <<>>
    /\ draws = 0

NextFull ==
    \/ RunIdle
    \/ \E k \in DOMAIN loops : DelayExpires(k)
    \/ \E k \in DOMAIN loops, p \in SamplePoints : RRTIterate(k, p)

SpecFull == InitFull /\ [][NextFull]_vars

\* C15: on the 25 x 25 grid with no obstacle, start (2,12) and goal (22,12),
\* runAStar ends Found with the path (2,12), (3,12), ..., (22,12): 21 cells of
\* the row y = 12.
C15_StraightLine ==
    ( /\ gridSize = FullGrid /\ grid = EmptyGrid(FullGrid)
      /\ currentAlgorithm = "astar" /\ plannerStatus \in Ended )
      => /\ plannerStatus = "Path Found!"
         /\ path = [i \in 1 .. 21 |-> <<i + 1, 12>>]

\* the A* run on the empty 25 x 25 grid has ended, after expanding the 20 cells
\* before the goal
C15_Witness ==
    /\ gridSize = FullGrid /\ grid = EmptyGrid(FullGrid)
    /\ currentAlgorithm = "astar"
    /\ plannerStatus \in Ended
    /\ Cardinality(visited) = 20

C17_RRTAttemptsBounded ==
    /\ \A k \in DOMAIN loops :
          loops[k].alg = "rrt"
            => /\ loops[k].attempts <= MaxIterations
               /\ loops[k].attempts \in {loops[k].i, loops[k].i + 1}
               /\ Len(loops[k].nodes) <= loops[k].attempts + 1
    /\ (currentAlgorithm = "rrt" /\ loops = <<>> /\ plannerStatus # "Ready")
         => \/ plannerStatus = "Path Found!"
            \/ plannerStatus = "No Path Found" /\ path = <<>>

\* an RRT run that ended Exhausted on a grid with no wall in its way: each of
\* its attempts left the grid, and the tree is still the start alone
C17_Witness ==
    /\ currentAlgorithm = "rrt"
    /\ ~HasWall
    /\ plannerStatus = "No Path Found"
    /\ rrtTree # NoTree /\ Len(rrtTree) = 1

----------------------------------------------------------------------------
(* reset() among the other controls: runs of A* or Dijkstra from the            *)
(* constructor's state with run(), togglePause(), handleDraw and reset() at any *)
(* moment.  Here a run is cancelled by reset() only.                            *)

InitReset ==
    /\ gridSize = SmallGrid
    /\ grid = initGrid(SmallGrid)
    /\ start = DefaultStart(SmallGrid)
    /\ goal = DefaultGoal(SmallGrid)
    /\ currentAlgorithm \in {"astar", "dijkstra"}
    /\ isRunning = FALSE
    /\ isPaused = FALSE
    /\ path = <<>>
    /\ visited = {}
    /\ frontier = {}
    /\ rrtTree = NoTree
    /\ plannerStatus = "Ready"
    /\ nodesExplored = 0
    /\ loops = <<>>
    /\ draws = 0

NextReset ==
    \/ Run
    \/ TogglePause
    \/ Reset
    \/ Draw
    \/ \E k \in DOMAIN loops : DelayExpires(k)
    \/ \E k \in DOMAIN loops : ResumePoll(k)

SpecReset == InitReset /\ [][NextReset]_vars

\* the grid, the start and the goal are those of the constructor and of reset()
DefaultLayout ==
    /\ grid = initGrid(gridSize)
    /\ start = DefaultStart(gridSize)
    /\ goal = DefaultGoal(gridSize)

\* C18: a run of A* or Dijkstra on the unmodified default grid, made after a
\* reset() whatever came before it, ends with the visited cells and the path of
\* the one run that the algorithm makes on that grid.
C18_ResetRunDeterministic ==
    (DefaultLayout /\ ~isRunning /\ plannerStatus \in Ended)
      => /\ path = Unpaused.path
         /\ visited = Unpaused.visited

\* the state reset() leaves: the defaults, no run active, nothing of a run shown
AfterReset ==
    /\ DefaultLayout
    /\ ~isPaused
    /\ CleanIdle

\* C19: reset(), from any state, leaves the default obstacle layout, the default
\* start and goal, no run active and path, visited and frontier empty; and a
\* second reset() changes nothing more.
C19_ResetRestoresDefaults ==
    [][Reset => (AfterReset' /\ (AfterReset => UNCHANGED vars))]_vars

\* the state of a reset() that arrived during a run, after the start had been
\* moved: the defaults are back and the cancelled invocation is still suspended
C19_Witness ==
    /\ AfterReset
    /\ plannerStatus = "Ready"
    /\ draws >= 1
    /\ loops # <<>>

----------------------------------------------------------------------------
(* Claims on what a search reads, under Spec *)

\* the invocation number k executes a part of its body that reads this.grid, this.start
\* or this.goal: the neighbour loop of a grid search (getNeighbors and the obstacle
\* test), the goal test of runAStar after a pause, an RRT attempt that pushed a
\* node (lineCollision was called for it)
SearchReads(k) ==
    \/ loops[k].alg # "rrt" /\ DelayExpires(k)
    \/ loops[k].alg = "astar" /\ ResumePoll(k)
    \/ /\ loops[k].alg = "rrt"
       /\ \E p \in SamplePoints : RRTIterate(k, p) \/ RRTResume(k, p)
       /\ rrtTree' # rrtTree

\* C21: an invocation of runAStar, runDijkstra or runRRT that reads the grid or
\* the goal again after its start finds them as they were at its first read: no
\* handleDraw and no reset() has modified them in between.  (The start is read
\* only when the invocation begins.)
C21_SearchSeesOneGrid ==
    [][\A k \in DOMAIN loops :
          SearchReads(k) => (loops[k].seen[1] = grid /\ loops[k].seen[3] = goal)]_vars

\* C22: a non-empty path of A* or Dijkstra (no RRT tree is set) matches the
\* current grid: none of its cells is an obstacle, its first cell is the start
\* and its last cell is the goal.
C22_PathMatchesGrid ==
    (path # <<>> /\ rrtTree = NoTree)
      => /\ \A i \in 1 .. Len(path) : grid[path[i]] = 0
         /\ path[1] = start
         /\ path[Len(path)] = goal

----------------------------------------------------------------------------
(* Claims on the steps of a grid search, under SpecPause and SpecSearch *)

\* one of the handlers of the page runs
UIHandler ==
    \/ Run
    \/ TogglePause
    \/ ClearPath
    \/ Reset
    \/ Draw
    \/ \E a \in Algorithms : SelectAlgorithm(a)

\* the grid search l is inside a step: it has popped a node and added it to
\* closedSet and visited, and has not yet looked at the node's neighbours (it is
\* suspended in the `await this.delay(..)' between the two)
MidStep(l) == l.alg # "rrt" /\ l.pc = "delay"

\* C23: no handler runs while a grid search is inside a step, between the pop of
\* a node and the insertion of its neighbours into the open collection.
C23_StepAtomic ==
    [][UIHandler => \A k \in DOMAIN loops : ~MidStep(loops[k])]_vars

----------------------------------------------------------------------------
(* The RRT search alone: one run of runRRT from a grid, a start and a goal that *)
(* the editing handlers can produce.                                            *)

InitRRT ==
    /\ gridSize = SmallGrid
    /\ grid \in Grids
    /\ start \in {c \in Cells : grid[c] = 0}
    /\ goal \in {c \in Cells : grid[c] = 0}
    /\ currentAlgorithm = "rrt"
    /\ isRunning = FALSE
    /\ isPaused = FALSE
    /\ path = <<>>
    /\ visited = {}
    /\ frontier = {}
    /\ rrtTree = NoTree
    /\ plannerStatus = "Ready"
    /\ nodesExplored = 0
    /\ loops = <<>>
    /\ draws = 0

NextRRT ==
    \/ RunIdle
    \/ \E k \in DOMAIN loops : DelayExpires(k)
    \/ \E k \in DOMAIN loops, p \in SamplePoints : RRTIterate(k, p)

SpecRRT == InitRRT /\ [][NextRRT]_vars

\* the node n lies within [0, gridSize) x [0, gridSize)
OnGrid(n) == n.x >= 0 /\ n.x < gridSize /\ n.y >= 0 /\ n.y < gridSize

\* C24: every node of the RRT tree but the root, the goal node appended on
\* success included, lies on the grid, and lineCollision finds no obstacle on
\* the segment from its parent to it.
C24_RRTTreeCollisionFree ==
    rrtTree # NoTree
      => \A j \in 2 .. Len(rrtTree) :
            /\ OnGrid(rrtTree[j])
            /\ ~lineCollision(Pt(rrtTree[rrtTree[j].parent]), Pt(rrtTree[j]))

----------------------------------------------------------------------------
(* The order of the pops: one run of A* or Dijkstra on a grid large enough for *)
(* a node of the open collection to be reached a second time at a lower cost.  *)

\* side of the grid in SpecTies
TieGrid == 4

\* most obstacle cells of a grid SpecTies starts from
MaxTieObstacles == 1

InitTies ==
    /\ gridSize = TieGrid
    /\ grid \in {[c \in Cells |-> IF c \in S THEN 1 ELSE 0] :
                   S \in {T \in SUBSET Cells : Cardinality(T) <= MaxTieObstacles}}
    /\ start \in {c \in Cells : grid[c] = 0}
    /\ goal \in {c \in Cells : grid[c] = 0}
    /\ currentAlgorithm \in {"astar", "dijkstra"}
    /\ isRunning = FALSE
    /\ isPaused = FALSE
    /\ path = <<>>
    /\ visited = {}
    /\ frontier = {}
    /\ rrtTree = NoTree
    /\ plannerStatus = "Ready"
    /\ nodesExplored = 0
    /\ loops = <<>>
    /\ draws = 0

SpecTies == InitTies /\ [][NextSearch]_vars

\* the node the grid search l popped last, while l waits in the delay after the pop
Popped(l) == l.closed[Len(l.closed)]

\* C25: the node popped has the least priority of the open collection, and every
\* node left there with the same priority was put into the open collection after it.
C25_TiesByInsertionOrder ==
    \A k \in DOMAIN loops :
        MidStep(loops[k])
          => \A j \in DOMAIN loops[k].openSet :
                LET n == loops[k].openSet[j]
                IN  /\ ~CLess(Prio(n), Prio(Popped(loops[k])))
                    /\ Prio(n) = Prio(Popped(loops[k])) => Popped(loops[k]).seq < n.seq

----------------------------------------------------------------------------
(* Claims on the frontier and on the expansions, under SpecPause and SpecRevisit *)

\* the grid search l has completed a step and not begun the next: it has
\* inserted the neighbours of the node it popped, found the session Paused at the
\* top of its loop and waits in waitForResume
StepDone(l) == l.alg # "rrt" /\ l.pc = "wait"

\* C26: when a grid search has completed a step, the frontier is the set of the
\* coordinates in its open collection; and while an RRT tree is set the frontier
\* is empty.
C26_FrontierIsOpenSet ==
    /\ \A k \in DOMAIN loops :
          StepDone(loops[k]) => frontier = {Key(n) : n \in Range(loops[k].openSet)}
    /\ rrtTree # NoTree => frontier = {}

\* side of the grid in SpecRevisit
RevisitGrid == 6

\* the cells that can be obstacles in SpecRevisit: with both, runDijkstra reaches
\* a cell of the open collection a second time at a lower cost
RevisitObstacles == {<<0, 0>>, <<1, 2>>}

\* one run of A* or Dijkstra on a grid where a node is pushed for a coordinate
\* that the open collection holds already
InitRevisit ==
    /\ gridSize = RevisitGrid
    /\ grid \in {[c \in Cells |-> IF c \in S THEN 1 ELSE 0] : S \in SUBSET RevisitObstacles}
    /\ start \in {c \in Cells : grid[c] = 0}
    /\ goal \in {c \in Cells : grid[c] = 0}
    /\ currentAlgorithm \in {"astar", "dijkstra"}
    /\ isRunning = FALSE
    /\ isPaused = FALSE
    /\ path = <<>>
    /\ visited = {}
    /\ frontier = {}
    /\ rrtTree = NoTree
    /\ plannerStatus = "Ready"
    /\ nodesExplored = 0
    /\ loops = <<>>
    /\ draws = 0

SpecRevisit == InitRevisit /\ [][NextSearch]_vars

\* C27: within a run of A* or Dijkstra no coordinate is expanded twice: the
\* expanded nodes have distinct coordinates, which are the members of closedSet
\* and of visited, and the open collection of A* holds no closed coordinate.
C27_ExpandedOnce ==
    \A k \in DOMAIN loops :
        LET l == loops[k]
        IN  l.alg # "rrt"
              => /\ \A i, j \in DOMAIN l.closed :
                        Key(l.closed[i]) = Key(l.closed[j]) => i = j
                 /\ l.closedSet = {Key(n) : n \in Range(l.closed)}
                 /\ visited = l.closedSet
                 /\ l.alg = "astar" => \A n \in Range(l.openSet) : Key(n) \notin l.closedSet

\* a Dijkstra run that has popped and skipped a node whose coordinate was closed
\* already: of the nodes pushed, more have left the open collection than were
\* expanded
C27_Witness ==
    \E k \in DOMAIN loops :
        /\ loops[k].alg = "dijkstra"
        /\ loops[k].pushes - Len(loops[k].openSet) > Len(loops[k].closed)

----------------------------------------------------------------------------
(* A run left to end: one run of any of the three searches with togglePause() *)
(* at any moment and no cancellation.  The timers fire: a pending delay        *)
(* expires, the task of an RRT run goes on, and the poll of waitForResume      *)
(* comes to see isPaused false if the session is un-paused again and again.    *)
(* The session is not left Paused: a pause is followed by a togglePause().     *)
(*                                                                             *)
(* The fairness of the timers is SF_vars(SearchGoesOn), written out with       *)
(* TimerPending for ENABLED <<SearchGoesOn>>_vars: every step of SearchGoesOn  *)
(* changes loops, and it can be taken exactly when TimerPending holds.         *)

\* most obstacle cells of a grid SpecLive starts from
MaxLiveObstacles == 2

InitLive ==
    /\ gridSize = SmallGrid
    /\ grid \in {[c \in Cells |-> IF c \in S THEN 1 ELSE 0] :
                   S \in {T \in SUBSET Cells : Cardinality(T) <= MaxLiveObstacles}}
    /\ start \in {c \in Cells : grid[c] = 0}
    /\ goal \in {c \in Cells : grid[c] = 0}
    /\ currentAlgorithm \in Algorithms
    /\ isRunning = FALSE
    /\ isPaused = FALSE
    /\ path = <<>>
    /\ visited = {}
    /\ frontier = {}
    /\ rrtTree = NoTree
    /\ plannerStatus = "Ready"
    /\ nodesExplored = 0
    /\ loops = <<>>
    /\ draws = 0

\* the invocation of the one run goes on: its delay expires, its poll finds the
\* session not Paused, or its task makes the next pass of the RRT loop
SearchGoesOn ==
    \E k \in DOMAIN loops :
        \/ DelayExpires(k)
        \/ ResumePoll(k)
        \/ \E p \in SamplePoints : RRTResume(k, p)
        \/ \E p \in SamplePoints : RRTIterate(k, p)

\* togglePause() on a Paused session
Unpause == isPaused /\ TogglePause

NextLive ==
    \/ RunIdle
    \/ TogglePause
    \/ SearchGoesOn

\* a timer of the run can fire, or its task is not finished: the run is in the
\* middle of an RRT pass, or no task is running and its delay is pending or its
\* poll will find isPaused false
TimerPending ==
    \E k \in DOMAIN loops :
        \/ loops[k].pc = "iter"
        \/ Quiet /\ loops[k].pc = "delay"
        \/ Quiet /\ loops[k].pc = "wait" /\ ~isPaused

SpecLive ==
    /\ InitLive
    /\ [][NextLive]_vars
    /\ (<>[]~TimerPending \/ []<><<SearchGoesOn>>_vars)
    /\ WF_vars(Unpause)

-----------------------------------------------------------------------------
(* run() on a Paused session, under Spec *)

\* the methods of PathPlanner that run() calls on `this' and the class defines
DefinedMethods == {"clearPath", "updateUI", "runAStar", "runDijkstra", "runRRT"}

\* a call of run() in this state throws: its paused branch sets isPaused to false
\* and then calls this.processAnimationQueue, which the class does not define, so
\* the call is a TypeError and the promise of run() is rejected
RunThrows == isPaused /\ "processAnimationQueue" \notin DefinedMethods

\* run() called on a Paused session
RunWhilePaused == isRunning /\ isPaused /\ Run

\* C29: run() on a Paused session sets isPaused to false, leaves the suspended
\* search loops as they are (none added, none moved) and raises no error.
C29_RunResumes ==
    [][RunWhilePaused => (~isPaused' /\ loops' = loops /\ ~RunThrows)]_vars

-----------------------------------------------------------------------------
(* The start and the goal under the editing handlers, under SpecEdit *)

\* C30: after any handleDraw and reset() calls the start and the goal are
\* distinct cells.
C30_StartGoalDistinct == start # goal

====
